---- MODULE Spec2Model ----
(***************************************************************************)
(* Model of scripts/patch_manager.py: the line editor, the diff            *)
(* generator, the schema validator and the batch orchestrator.             *)
(*                                                                         *)
(* A Python str is a sequence of one-character strings; a file on disk is  *)
(* its content (one str); a line buffer is a sequence of strs.             *)
(***************************************************************************)
EXTENDS Integers, Sequences, FiniteSets, TLC

\* ------------------------------------------------------------------ bounds
MaxFileLen == 3   \* characters of the file a single edit is tried on
MaxBlockLen == 3  \* characters of the content of a single edit
MaxOps == 2       \* operations of a batch

\* ------------------------------------------------------------- characters
NL == "\n"
SP == " "
Alphabet == {"a", SP, NL}

\* the sequences over S of length n, and of length at most n
RECURSIVE SeqsOfLen(_, _)
SeqsOfLen(S, n) ==
  IF n = 0 THEN {<<>>} ELSE {Append(q, x) : q \in SeqsOfLen(S, n - 1), x \in S}
SeqsUpTo(S, n) == UNION {SeqsOfLen(S, k) : k \in 0..n}

Str(n) == SeqsUpTo(Alphabet, n)

\* an optional value (Python's None or a value): <<>> or <<v>>
None == <<>>
Some(v) == <<v>>
Val(o) == o[1]

\* ------------------------------------------------------- Python str / list
Min(a, b) == IF a < b THEN a ELSE b
Max(a, b) == IF a > b THEN a ELSE b

\* str.isspace() of one character
isspace(c) == c \in {SP, NL}

RECURSIVE lstrip(_)
lstrip(s) ==
  IF s = <<>> THEN <<>>
  ELSE IF isspace(Head(s)) THEN lstrip(Tail(s)) ELSE s

RECURSIVE rstrip(_)
rstrip(s) ==
  IF s = <<>> THEN <<>>
  ELSE IF isspace(s[Len(s)]) THEN rstrip(SubSeq(s, 1, Len(s) - 1)) ELSE s

strip(s) == rstrip(lstrip(s))

endswith(s, c) == Len(s) > 0 /\ s[Len(s)] = c

\* index of the first NL of s, 0 when there is none
FirstNL(s) ==
  IF \E k \in 1..Len(s) : s[k] = NL
  THEN CHOOSE k \in 1..Len(s) : s[k] = NL /\ \A m \in 1..(k - 1) : s[m] # NL
  ELSE 0

\* s.split('\n'): the pieces between newlines, never empty as a list
RECURSIVE split(_)
split(s) ==
  LET k == FirstNL(s)
  IN IF k = 0 THEN <<s>>
     ELSE <<SubSeq(s, 1, k - 1)>> \o split(SubSeq(s, k + 1, Len(s)))

\* '\n'.join(parts)
RECURSIVE join(_)
join(parts) ==
  IF parts = <<>> THEN <<>>
  ELSE IF Len(parts) = 1 THEN parts[1]
  ELSE parts[1] \o <<NL>> \o join(Tail(parts))

\* f.readlines(): lines with their terminators kept
RECURSIVE readlines(_)
readlines(s) ==
  IF s = <<>> THEN <<>>
  ELSE LET k == FirstNL(s)
       IN IF k = 0 THEN <<s>>
          ELSE <<SubSeq(s, 1, k)>> \o readlines(SubSeq(s, k + 1, Len(s)))

\* f.writelines(lines): the concatenation
RECURSIVE writelines(_)
writelines(lines) ==
  IF lines = <<>> THEN <<>> ELSE Head(lines) \o writelines(Tail(lines))

\* a slice bound as Python normalises it
SliceIdx(n, k) == IF k < 0 THEN Max(n + k, 0) ELSE Min(k, n)

\* lst[:hi] and lst[lo:]
SliceTo(lst, hi) == SubSeq(lst, 1, SliceIdx(Len(lst), hi))
SliceFrom(lst, lo) == SubSeq(lst, SliceIdx(Len(lst), lo) + 1, Len(lst))

\* ------------------------------------------------------------ line editor
Raised(kind) == [raised |-> TRUE, error |-> kind]

\* an indentation that is put on every line of the content
preserve_indentation_every_line(original_line, new_content) ==
  IF strip(original_line) = <<>> THEN new_content
  ELSE LET indent == Len(original_line) - Len(lstrip(original_line))
           indent_str == SubSeq(original_line, 1, indent)
           lines == split(new_content)
       IN join([k \in 1..Len(lines) |-> indent_str \o lstrip(lines[k])])

preserve_indentation(original_line, new_content) ==
  IF strip(original_line) = <<>> THEN new_content
  ELSE LET indent == Len(original_line) - Len(lstrip(original_line))
           indent_str == SubSeq(original_line, 1, indent)
           lines == split(new_content)
       IN join(<<indent_str \o lstrip(lines[1])>> \o Tail(lines))

\* ---------------------------------------------------------- diff generator
\* difflib.SequenceMatcher over two line buffers a and b; positions are
\* Python's (0-based, half-open), element i of a is a[i + 1].
DiffContext == 3

RECURSIVE MatchLen(_, _, _, _, _, _)
MatchLen(a, b, i, j, ahi, bhi) ==
  IF i < ahi /\ j < bhi /\ a[i + 1] = b[j + 1]
  THEN 1 + MatchLen(a, b, i + 1, j + 1, ahi, bhi)
  ELSE 0

\* the longest common block of a[alo:ahi] and b[blo:bhi]; of the longest ones
\* the one starting earliest in a, and of those the one starting earliest in b
find_longest_match(a, b, alo, ahi, blo, bhi) ==
  LET is == alo..(ahi - 1)
      js == blo..(bhi - 1)
      len(i, j) == MatchLen(a, b, i, j, ahi, bhi)
      best == IF is = {} \/ js = {} THEN 0
              ELSE CHOOSE k \in 0..(ahi - alo) :
                     /\ \E i \in is, j \in js : len(i, j) = k
                     /\ \A i \in is, j \in js : len(i, j) <= k
  IN IF best = 0 THEN <<alo, blo, 0>>
     ELSE LET bi == CHOOSE i \in is :
                      /\ \E j \in js : len(i, j) = best
                      /\ \A i2 \in is : (\E j \in js : len(i2, j) = best) => i <= i2
              bj == CHOOSE j \in js :
                      /\ len(bi, j) = best
                      /\ \A j2 \in js : len(bi, j2) = best => j <= j2
          IN <<bi, bj, best>>

\* the matching blocks of a[alo:ahi] and b[blo:bhi] in order: the longest
\* match m, and those to its left and to its right
RECURSIVE match_blocks(_, _, _, _, _, _)
blocks_around(a, b, alo, ahi, blo, bhi, m) ==
  IF m[3] = 0 THEN <<>>
  ELSE (IF alo < m[1] /\ blo < m[2]
        THEN match_blocks(a, b, alo, m[1], blo, m[2]) ELSE <<>>)
       \o <<m>>
       \o (IF m[1] + m[3] < ahi /\ m[2] + m[3] < bhi
           THEN match_blocks(a, b, m[1] + m[3], ahi, m[2] + m[3], bhi) ELSE <<>>)

match_blocks(a, b, alo, ahi, blo, bhi) ==
  blocks_around(a, b, alo, ahi, blo, bhi, find_longest_match(a, b, alo, ahi, blo, bhi))

\* adjacent blocks are merged
RECURSIVE collapse(_, _)
collapse(cur, rest) ==
  IF rest = <<>> THEN (IF cur[3] > 0 THEN <<cur>> ELSE <<>>)
  ELSE LET nx == Head(rest)
       IN IF cur[1] + cur[3] = nx[1] /\ cur[2] + cur[3] = nx[2]
          THEN collapse(<<cur[1], cur[2], cur[3] + nx[3]>>, Tail(rest))
          ELSE (IF cur[3] > 0 THEN <<cur>> ELSE <<>>) \o collapse(nx, Tail(rest))

get_matching_blocks(a, b) ==
  collapse(<<0, 0, 0>>, match_blocks(a, b, 0, Len(a), 0, Len(b)))
    \o <<(<<Len(a), Len(b), 0>>)>>

Opcode(tag, i1, i2, j1, j2) == [tag |-> tag, i1 |-> i1, i2 |-> i2, j1 |-> j1, j2 |-> j2]

RECURSIVE opcodes_from(_, _, _)
opcodes_from(blocks, i, j) ==
  IF blocks = <<>> THEN <<>>
  ELSE LET ai == Head(blocks)[1]
           bj == Head(blocks)[2]
           size == Head(blocks)[3]
           tag == IF i < ai /\ j < bj THEN "replace"
                  ELSE IF i < ai THEN "delete"
                  ELSE IF j < bj THEN "insert"
                  ELSE ""
       IN (IF tag # "" THEN <<Opcode(tag, i, ai, j, bj)>> ELSE <<>>)
          \o (IF size > 0 THEN <<Opcode("equal", ai, ai + size, bj, bj + size)>> ELSE <<>>)
          \o opcodes_from(Tail(blocks), ai + size, bj + size)

get_opcodes(a, b) == opcodes_from(get_matching_blocks(a, b), 0, 0)

\* get_grouped_opcodes(n): the first and the last equal run are cut to n lines
\* of context, and an equal run longer than 2n splits the group
TrimEnds(codes, n) ==
  LET c1 == IF codes[1].tag = "equal"
            THEN [codes EXCEPT ![1] = Opcode("equal", Max(@.i1, @.i2 - n), @.i2,
                                              Max(@.j1, @.j2 - n), @.j2)]
            ELSE codes
      L == Len(c1)
  IN IF c1[L].tag = "equal"
     THEN [c1 EXCEPT ![L] = Opcode("equal", @.i1, Min(@.i2, @.i1 + n),
                                    @.j1, Min(@.j2, @.j1 + n))]
     ELSE c1

RECURSIVE group_codes(_, _, _)
group_codes(codes, group, n) ==
  IF codes = <<>>
  THEN IF group # <<>> /\ ~(Len(group) = 1 /\ group[1].tag = "equal")
       THEN <<group>> ELSE <<>>
  ELSE LET c == Head(codes)
       IN IF c.tag = "equal" /\ c.i2 - c.i1 > 2 * n
          THEN <<Append(group, Opcode("equal", c.i1, Min(c.i2, c.i1 + n),
                                       c.j1, Min(c.j2, c.j1 + n)))>>
               \o group_codes(Tail(codes),
                              <<Opcode("equal", Max(c.i1, c.i2 - n), c.i2,
                                        Max(c.j1, c.j2 - n), c.j2)>>, n)
          ELSE group_codes(Tail(codes), Append(group, c), n)

OrOneEqual(codes) == IF codes = <<>> THEN <<Opcode("equal", 0, 1, 0, 1)>> ELSE codes

get_grouped_opcodes(a, b, n) ==
  group_codes(TrimEnds(OrOneEqual(get_opcodes(a, b)), n), <<>>, n)

\* str(n) for n >= 0, as decimal digits
RECURSIVE str_int(_)
str_int(n) ==
  IF n < 10 THEN <<ToString(n)>> ELSE Append(str_int(n \div 10), ToString(n % 10))

\* '{beginning},{length}' of a hunk header
format_range_unified(start, stop) ==
  LET length == stop - start
  IN IF length = 1 THEN str_int(start + 1)
     ELSE str_int(IF length = 0 THEN start ELSE start + 1) \o <<",">> \o str_int(length)

Prefixed(p, lines) == [k \in 1..Len(lines) |-> <<p>> \o lines[k]]

RECURSIVE group_body(_, _, _)
group_body(group, a, b) ==
  IF group = <<>> THEN <<>>
  ELSE LET c == Head(group)
       IN (IF c.tag = "equal" THEN Prefixed(" ", SubSeq(a, c.i1 + 1, c.i2))
           ELSE (IF c.tag \in {"replace", "delete"}
                 THEN Prefixed("-", SubSeq(a, c.i1 + 1, c.i2)) ELSE <<>>)
                \o (IF c.tag \in {"replace", "insert"}
                    THEN Prefixed("+", SubSeq(b, c.j1 + 1, c.j2)) ELSE <<>>))
          \o group_body(Tail(group), a, b)

RECURSIVE hunks(_, _, _)
hunks(groups, a, b) ==
  IF groups = <<>> THEN <<>>
  ELSE LET g == Head(groups)
           first == g[1]
           last == g[Len(g)]
       IN <<(<<"@", "@", SP, "-">> \o format_range_unified(first.i1, last.i2)
               \o <<SP, "+">> \o format_range_unified(first.j1, last.j2)
               \o <<SP, "@", "@">>)>>
          \o group_body(g, a, b)
          \o hunks(Tail(groups), a, b)

\* the lines difflib.unified_diff(a, b, fromfile=p, tofile=p, lineterm='')
\* yields; "f" stands for the file path
WithHeader(hunk_lines) ==
  IF hunk_lines = <<>> THEN <<>>
  ELSE <<(<<"-", "-", "-", SP, "f">>), (<<"+", "+", "+", SP, "f">>)>> \o hunk_lines

unified_diff(a, b) ==
  WithHeader(hunks(get_grouped_opcodes(a, b, DiffContext), a, b))

generate_unified_diff(original_lines, modified_lines) ==
  join(unified_diff(original_lines, modified_lines))

\* what an editing method returns: (modified_lines, diff)
Edited(original_lines, modified_lines) ==
  [raised |-> FALSE,
   modified_lines |-> modified_lines,
   diff |-> generate_unified_diff(original_lines, modified_lines)]

\* text is the content of the file at file_path, read by _read_file
read_file(text) == readlines(text)

replace_block(text, start_line, end_line, new_content, preserve_indent) ==
  LET lines == read_file(text)
      start_idx == start_line - 1
      end_idx == end_line
  IN IF start_idx < 0 \/ end_idx > Len(lines) THEN Raised("ValueError")
     ELSE LET content == IF preserve_indent /\ start_idx < Len(lines)
                         THEN preserve_indentation(lines[start_idx + 1], new_content)
                         ELSE new_content
              parts == split(content)
              new_lines == IF ~endswith(content, NL) THEN parts
                           ELSE [k \in 1..Len(parts) |->
                                   IF ~endswith(parts[k], NL)
                                   THEN Append(parts[k], NL) ELSE parts[k]]
          IN Edited(lines, SliceTo(lines, start_idx) \o new_lines
                             \o SliceFrom(lines, end_idx))

\* the list comprehension shared by insert_before and insert_after
TerminateNonEmpty(parts) ==
  [k \in 1..Len(parts) |->
     IF ~endswith(parts[k], NL) /\ parts[k] # <<>>
     THEN Append(parts[k], NL) ELSE parts[k]]

insert_before(text, line_number, new_content, preserve_indent) ==
  LET lines == read_file(text)
      insert_idx == line_number - 1
  IN IF insert_idx < 0 \/ insert_idx > Len(lines) THEN Raised("ValueError")
     ELSE LET content == IF preserve_indent /\ insert_idx < Len(lines)
                         THEN preserve_indentation(lines[insert_idx + 1], new_content)
                         ELSE new_content
              new_lines == TerminateNonEmpty(split(content))
          IN Edited(lines, SliceTo(lines, insert_idx) \o new_lines
                             \o SliceFrom(lines, insert_idx))

insert_after(text, line_number, new_content, preserve_indent) ==
  LET lines == read_file(text)
      insert_idx == line_number
  IN IF insert_idx < 0 \/ insert_idx > Len(lines) THEN Raised("ValueError")
     ELSE LET content == IF preserve_indent /\ insert_idx > 0
                         THEN preserve_indentation(lines[insert_idx], new_content)
                         ELSE new_content
              new_lines == TerminateNonEmpty(split(content))
          IN Edited(lines, SliceTo(lines, insert_idx) \o new_lines
                             \o SliceFrom(lines, insert_idx))

\* the normalisation shared by append and prepend
NormalisedLines(new_content) ==
  LET content == IF ~endswith(new_content, NL) THEN Append(new_content, NL)
                 ELSE new_content
      parts == split(content)
  IN [k \in 1..Len(parts) |->
        IF parts[k] # <<>> THEN Append(parts[k], NL) ELSE parts[k]]

append(text, new_content) ==
  LET lines == read_file(text)
  IN Edited(lines, lines \o NormalisedLines(new_content))

prepend(text, new_content) ==
  LET lines == read_file(text)
  IN Edited(lines, NormalisedLines(new_content) \o lines)

\* ------------------------------------------------------------ project tree
\* The files a batch can name under project_root.  c.py and gone.txt never
\* exist; blk.txt is a block file.  The tree is read and written by this
\* process only (no I/O error other than a missing file).
Files == {"a.py", "b.ts", "c.py", "blk.txt", "gone.txt"}
Missing == None
suffix(file) == IF file = "b.ts" THEN ".ts" ELSE IF file \in {"a.py", "c.py"} THEN ".py" ELSE ".txt"
exists(fsys, file) == fsys[file] # Missing
content_of(fsys, file) == Val(fsys[file])

\* PatchOperation; a field left out of the batch document is None
PatchOperation(op, file, start, end, line, block, blockFile, openSpace, taskId) ==
  [op |-> op, file |-> file, start |-> start, end |-> end, line |-> line,
   block |-> block, blockFile |-> blockFile, openSpace |-> openSpace, taskId |-> taskId]

\* ------------------------------------------------------ batch orchestrator
get_content(fsys, operation) ==
  IF operation.block # None /\ Val(operation.block) # <<>>
  THEN [raised |-> FALSE, content |-> Val(operation.block)]
  ELSE IF operation.blockFile # None
       THEN IF exists(fsys, Val(operation.blockFile))
            THEN [raised |-> FALSE, content |-> content_of(fsys, Val(operation.blockFile))]
            ELSE Raised("FileNotFoundError")
       ELSE Raised("ValueError")

\* a _write_file that joins the lines with newlines although they carry
\* their own terminators
write_file_joined(fsys, dry, file, lines) ==
  IF dry THEN fsys ELSE [fsys EXCEPT ![file] = Some(join(lines))]

\* a _write_file that writes in dry-run mode too
write_file_always(fsys, dry, file, lines) ==
  [fsys EXCEPT ![file] = Some(writelines(lines))]

\* a _write_file that keeps the text it replaces in another file
write_file_with_backup(fsys, dry, file, lines) ==
  IF dry THEN fsys
  ELSE [fsys EXCEPT ![file] = Some(writelines(lines)), !["gone.txt"] = fsys[file]]

\* _write_file: the new tree
write_file(fsys, dry, file, lines) ==
  IF dry THEN fsys ELSE [fsys EXCEPT ![file] = Some(writelines(lines))]

\* a _check_typescript whose answer is thrown away
check_typescript_unattached(tsc) == None

\* _check_typescript under what the npx tsc run does: "pass" (exit 0),
\* "fail" (exit # 0), "timeout", "absent" (no such binary), "error" (other)
TscOutcomes == {"pass", "fail", "timeout", "absent", "error"}
check_typescript(tsc) ==
  CASE tsc = "pass" -> Some(TRUE)
    [] tsc = "fail" -> Some(FALSE)
    [] tsc = "timeout" -> Some(FALSE)
    [] tsc = "absent" -> None
    [] OTHER -> Some(FALSE)

\* the dispatch of apply_operation inside its try block
dispatch(text, operation, content) ==
  CASE operation.op = "replace-block" ->
         IF operation.start = None \/ operation.end = None THEN Raised("ValueError")
         ELSE replace_block(text, Val(operation.start), Val(operation.end), content,
                            ~operation.openSpace)
    [] operation.op = "insert-before" ->
         IF operation.line = None THEN Raised("ValueError")
         ELSE insert_before(text, Val(operation.line), content, ~operation.openSpace)
    [] operation.op = "insert-after" ->
         IF operation.line = None THEN Raised("ValueError")
         ELSE insert_after(text, Val(operation.line), content, ~operation.openSpace)
    [] operation.op = "append" -> append(text, content)
    [] operation.op = "prepend" -> prepend(text, content)
    [] OTHER -> Raised("ValueError")

\* apply_operation: either an exception leaves it (raised), or it returns a
\* result dict (a key it leaves out is None); fs is the tree afterwards, buffer the modified_lines it
\* computed, effects what it did to the outside in order
\* lines 398-425: what follows the edit ed inside the try block
after_edit(fsys, operation, dry, tsc, ed) ==
  LET typed == suffix(operation.file) \in {".ts", ".tsx"}
  IN IF ed.raised
     THEN [raised |-> FALSE, fs |-> fsys, buffer |-> None, effects |-> <<>>,
           result |-> [success |-> FALSE, file |-> operation.file,
                       op |-> operation.op, diff |-> None,
                       error |-> Some(ed.error),
                       ts_check_ok |-> Some(FALSE)]]
     ELSE [raised |-> FALSE,
           fs |-> write_file(fsys, dry, operation.file, ed.modified_lines),
           buffer |-> Some(ed.modified_lines),
           effects |-> (IF dry THEN <<>>
                        ELSE <<[kind |-> "write", file |-> operation.file]>>)
                       \o (IF typed
                           THEN <<[kind |-> "tsc", file |-> operation.file,
                                   outcome |-> tsc]>>
                           ELSE <<>>),
           result |-> [success |-> TRUE, file |-> operation.file,
                       op |-> operation.op, diff |-> Some(ed.diff),
                       error |-> None,
                       ts_check_ok |-> IF typed THEN check_typescript(tsc) ELSE None]]

\* lines 358-396: the content c, then the edit
with_content(fsys, operation, dry, tsc, c) ==
  IF c.raised THEN c
  ELSE after_edit(fsys, operation, dry, tsc,
                  dispatch(content_of(fsys, operation.file), operation, c.content))

apply_operation(fsys, operation, dry, tsc) ==
  IF ~exists(fsys, operation.file) THEN Raised("FileNotFoundError")
  ELSE with_content(fsys, operation, dry, tsc, get_content(fsys, operation))

\* ---------------------------------------------------------- schema validator
\* schema: the state of .mission_control/tasks.json; parses tells whether
\* json.load succeeds, shaped whether the document is an object whose
\* "tasks" is a list of objects, and tasks is that list when it is
NoSchema == [exists |-> FALSE, parses |-> FALSE, shaped |-> FALSE, tasks |-> <<>>]

\* the first task of the schema whose id is task_id, None when there is none
RECURSIVE find_task(_, _)
find_task(tasks, task_id) ==
  IF tasks = <<>> THEN None
  ELSE IF Head(tasks).id = task_id THEN Some(Head(tasks))
  ELSE find_task(Tail(tasks), task_id)

InSeq(x, seq) == \E k \in 1..Len(seq) : seq[k] = x

\* line 484: `if operation.taskId:`
has_task_id(operation) == operation.taskId # None /\ Val(operation.taskId) # ""

\* an allow-list check that looks at the files only
operation_rejected_files_only(tasks, operation) ==
  /\ has_task_id(operation)
  /\ LET found == find_task(tasks, Val(operation.taskId))
     IN /\ found # None
        /\ Val(found).files # <<>> /\ ~InSeq(operation.file, Val(found).files)

\* an allow-list check that also rejects a task id the schema does not have
operation_rejected_unknown_task(tasks, operation) ==
  /\ has_task_id(operation)
  /\ LET found == find_task(tasks, Val(operation.taskId))
     IN \/ found = None
        \/ Val(found).files # <<>> /\ ~InSeq(operation.file, Val(found).files)
        \/ Val(found).allowedOperations # <<>>
             /\ ~InSeq(operation.op, Val(found).allowedOperations)

\* the allow-list check of one operation: TRUE when it raises ValueError
operation_rejected(tasks, operation) ==
  /\ has_task_id(operation)
  /\ LET found == find_task(tasks, Val(operation.taskId))
     IN /\ found # None
        /\ LET task_def == Val(found)
           IN \/ task_def.files # <<>> /\ ~InSeq(operation.file, task_def.files)
              \/ task_def.allowedOperations # <<>>
                   /\ ~InSeq(operation.op, task_def.allowedOperations)

\* a validator that stops after the first operation of the batch
validate_first_operation_only(sch, patches) ==
  sch.exists /\ sch.parses /\ patches # <<>>
    /\ operation_rejected(sch.tasks, patches[1])

\* a validator that demands a schema file
validate_requires_schema(sch, patches) ==
  IF ~sch.exists THEN TRUE
  ELSE IF ~sch.parses THEN FALSE
  ELSE \E k \in 1..Len(patches) : operation_rejected(sch.tasks, patches[k])

\* _validate_against_task_schema: TRUE when it raises ValueError
validate_against_task_schema(sch, patches) ==
  IF ~sch.exists THEN FALSE
  ELSE IF ~sch.parses THEN FALSE
  ELSE IF ~sch.shaped THEN \E k \in 1..Len(patches) : has_task_id(patches[k])
  ELSE \E k \in 1..Len(patches) : operation_rejected(sch.tasks, patches[k])

\* ------------------------------------------------------------------ notifier
\* notify_orchestrator under what the network does: "ok" (2xx answer),
\* "error" (transport error, error status or timeout), "no_requests" (the
\* requests library cannot be imported).  It returns TRUE when delivered and
\* never raises; the effect is the call with what it returned.
NetOutcomes == {"ok", "error", "no_requests"}
notify_orchestrator(file, op, status, task_id, ts_check_ok, net) ==
  [kind |-> "notify", file |-> file, op |-> op, status |-> status,
   task_id |-> task_id, ts_check_ok |-> ts_check_ok, returned |-> net = "ok"]

\* ---------------------------------------------------------------- the state
VARIABLES
  fs,        \* the project tree: file -> None (missing) or Some(content)
  fs0,       \* the tree when the call started
  schema,    \* the state of the task schema file
  batch,     \* the operations of the PatchBatch
  dry_run,   \* PatchManager.dry_run
  pc,        \* where the call is
  idx,       \* the index (from 1) of the next operation of apply_batch's loop
  results,   \* the results list of apply_batch
  effects,   \* what the call did to the outside so far, in order
  buffer,    \* the modified_lines of the last operation applied
  ret        \* what the call returned, None while it has not

vars == <<fs, fs0, schema, batch, dry_run, pc, idx, results, effects, buffer, ret>>

\* ------------------------------------------------------- inputs of a batch
TextA == <<"a", NL, SP, "b", NL>>
TextB == <<"a", NL>>
TextBlk == <<"c", NL>>

Tree(a) == [f \in Files |->
              CASE f = "a.py" -> Some(a)
                [] f = "b.ts" -> Some(TextB)
                [] f = "blk.txt" -> Some(TextBlk)
                [] OTHER -> Missing]

OpSet ==
  { PatchOperation("append", "c.py", None, None, None, Some(<<"c", NL>>), None, FALSE, None),
    PatchOperation("append", "a.py", None, None, None, None, None, FALSE, None),
    PatchOperation("prepend", "a.py", None, None, None, None, Some("gone.txt"), FALSE, None),
    PatchOperation("append", "a.py", None, None, None, None, Some("blk.txt"), FALSE, Some("2")),
    PatchOperation("replace-block", "a.py", Some(1), Some(9), None, Some(<<"c", NL>>), None, FALSE, None),
    PatchOperation("replace-block", "a.py", Some(9), Some(1), None, Some(<<"c", NL>>), None, FALSE, None),
    PatchOperation("replace-block", "a.py", Some(2), Some(2), None, Some(<<"c", NL>>), None, FALSE, Some("1")),
    PatchOperation("insert-before", "a.py", None, None, Some(3), Some(<<SP, "c">>), None, TRUE, Some("3")),
    PatchOperation("insert-before", "a.py", None, None, None, Some(<<"c">>), None, FALSE, None),
    PatchOperation("insert-after", "b.ts", None, None, Some(1), Some(<<"c", NL>>), None, FALSE, Some("1")),
    PatchOperation("prepend", "b.ts", None, None, None, Some(<<"c">>), None, FALSE, Some("2")),
    PatchOperation("rename", "a.py", None, None, None, Some(<<"c">>), None, FALSE, None) }

Batches == SeqsUpTo(OpSet, MaxOps)

Task(id, files, allowedOperations) ==
  [id |-> id, files |-> files, allowedOperations |-> allowedOperations]

Schemas ==
  { NoSchema,
    [exists |-> TRUE, parses |-> FALSE, shaped |-> FALSE, tasks |-> <<>>],
    [exists |-> TRUE, parses |-> TRUE, shaped |-> FALSE, tasks |-> <<>>],
    [exists |-> TRUE, parses |-> TRUE, shaped |-> TRUE,
     tasks |-> <<Task("1", <<"a.py">>, <<>>), Task("1", <<"b.ts">>, <<>>),
                 Task("2", <<>>, <<"prepend">>)>>] }

\* --------------------------------------------------------------- apply_batch
Init ==
  /\ fs = Tree(TextA)
  /\ fs0 = fs
  /\ schema \in Schemas
  /\ batch \in Batches
  /\ dry_run \in BOOLEAN
  /\ pc = "start"
  /\ idx = 0
  /\ results = <<>>
  /\ effects = <<>>
  /\ buffer = None
  /\ ret = None

\* what the type checker can do in a call on file, and the network in the
\* notification of result: one outcome stands for "not run"
TscRuns(file) == IF suffix(file) \in {".ts", ".tsx"} THEN TscOutcomes ELSE {"absent"}
NetRuns(result) == IF result.success THEN NetOutcomes ELSE {"no_requests"}

\* line 529: the schema check; a ValueError leaves apply_batch
Validate ==
  /\ pc = "start"
  /\ IF validate_against_task_schema(schema, batch)
     THEN pc' = "raised" /\ idx' = idx
     ELSE pc' = "loop" /\ idx' = 1
  /\ UNCHANGED <<fs, fs0, schema, batch, dry_run, results, effects, buffer, ret>>

\* a loop that a notification which was not delivered brings to an end
LoopBody_notify_fatal(operation, r) ==
  IF r.raised
  THEN /\ pc' = "raised"
       /\ UNCHANGED <<fs, idx, results, effects, buffer>>
  ELSE /\ fs' = r.fs
       /\ idx' = idx + 1
       /\ results' = Append(results, r.result)
       /\ buffer' = r.buffer
       /\ \E net \in NetRuns(r.result) :
            /\ pc' = IF r.result.success /\ net # "ok" THEN "raised" ELSE pc
            /\ effects' = effects \o r.effects
                 \o (IF r.result.success
                     THEN <<notify_orchestrator(operation.file, operation.op, "applied",
                                                operation.taskId, r.result.ts_check_ok, net)>>
                     ELSE <<>>)

\* lines 538-551: what the loop does with r, the outcome of apply_operation
LoopBody(operation, r) ==
  IF r.raised
  THEN /\ pc' = "raised"
       /\ UNCHANGED <<fs, idx, results, effects, buffer>>
  ELSE /\ pc' = pc
       /\ fs' = r.fs
       /\ idx' = idx + 1
       /\ results' = Append(results, r.result)
       /\ buffer' = r.buffer
       /\ \E net \in NetRuns(r.result) :
            effects' = effects \o r.effects
              \o (IF r.result.success
                  THEN <<notify_orchestrator(operation.file, operation.op, "applied",
                                             operation.taskId, r.result.ts_check_ok, net)>>
                  ELSE <<>>)

\* lines 536-551: one turn of the loop
ApplyNext ==
  /\ pc = "loop"
  /\ idx <= Len(batch)
  /\ \E tsc \in TscRuns(batch[idx].file) :
       LoopBody(batch[idx], apply_operation(fs, batch[idx], dry_run, tsc))
  /\ UNCHANGED <<fs0, schema, batch, dry_run, ret>>

\* a count of the successes that takes every result for one
Succeeded_counting_all(rs) == Len(rs)

Succeeded(rs) == Cardinality({k \in 1..Len(rs) : rs[k].success})

\* lines 553-563: the BatchResult
Return ==
  /\ pc = "loop"
  /\ idx > Len(batch)
  /\ pc' = "done"
  /\ ret' = Some([success |-> \A k \in 1..Len(results) : results[k].success,
                  operations |-> results,
                  total |-> Len(results),
                  succeeded |-> Succeeded(results),
                  failed |-> Cardinality({k \in 1..Len(results) : ~results[k].success})])
  /\ UNCHANGED <<fs, fs0, schema, batch, dry_run, idx, results, effects, buffer>>

Next == Validate \/ ApplyNext \/ Return

Spec == Init /\ [][Next]_vars

\* ------------------------------------------- one replace-block on one file
\* A direct call of apply_operation, as the unit tests make it, with a
\* replace-block on a.py: every file text and every content within the
\* bounds, every start and end from 0 to one past the last line.  Content
\* that is empty can only come from a block file.
EditTree(text, content) ==
  [f \in Files |->
     CASE f = "a.py" -> Some(text)
       [] f = "blk.txt" -> Some(content)
       [] OTHER -> Missing]

EditOp(start, end, content, openSpace) ==
  PatchOperation("replace-block", "a.py", Some(start), Some(end), None,
                 IF content = <<>> THEN None ELSE Some(content),
                 IF content = <<>> THEN Some("blk.txt") ELSE None,
                 openSpace, None)

InitEdit ==
  /\ \E text \in Str(MaxFileLen), content \in Str(MaxBlockLen), openSpace \in BOOLEAN :
       \E start \in 0..(Len(readlines(text)) + 1), end \in 0..(Len(readlines(text)) + 1) :
         /\ fs = EditTree(text, content)
         /\ batch = <<EditOp(start, end, content, openSpace)>>
  /\ fs0 = fs
  /\ schema = NoSchema
  /\ dry_run = FALSE
  /\ pc = "call"
  /\ idx = 1
  /\ results = <<>>
  /\ effects = <<>>
  /\ buffer = None
  /\ ret = None

\* what the caller has once apply_operation ended with r
Returned(r) ==
  IF r.raised
  THEN /\ pc' = "raised"
       /\ UNCHANGED <<fs, results, effects, buffer>>
  ELSE /\ pc' = "returned"
       /\ fs' = r.fs
       /\ results' = <<r.result>>
       /\ effects' = r.effects
       /\ buffer' = r.buffer

CallApplyOperation ==
  /\ pc = "call"
  /\ Returned(apply_operation(fs, batch[1], dry_run, "absent"))
  /\ UNCHANGED <<fs0, schema, batch, dry_run, idx, ret>>

NextEdit == CallApplyOperation

SpecEdit == InitEdit /\ [][NextEdit]_vars

\* ------------------------------- one insertion or append, the append twice
\* Direct calls of apply_operation with an insert-before, an insert-after or
\* an append on a.py: every file text and every content within the bounds,
\* every line from one below to one above the lines the methods accept.  An
\* append that returned is called once more with the same operation.
AddKinds == {"insert-before", "insert-after", "append"}

AddOp(kind, line, content, openSpace) ==
  PatchOperation(kind, "a.py", None, None,
                 IF kind = "append" THEN None ELSE Some(line),
                 IF content = <<>> THEN None ELSE Some(content),
                 IF content = <<>> THEN Some("blk.txt") ELSE None,
                 openSpace, None)

AddLines(kind, text) ==
  IF kind = "append" THEN {0} ELSE (-1)..(Len(readlines(text)) + 2)

InitAdd ==
  /\ \E text \in Str(MaxFileLen), content \in Str(MaxBlockLen), kind \in AddKinds :
       \E line \in AddLines(kind, text),
          openSpace \in (IF kind = "append" THEN {FALSE} ELSE BOOLEAN) :
         /\ fs = EditTree(text, content)
         /\ batch = <<AddOp(kind, line, content, openSpace)>>
  /\ fs0 = fs
  /\ schema = NoSchema
  /\ dry_run = FALSE
  /\ pc = "call"
  /\ idx = 1
  /\ results = <<>>
  /\ effects = <<>>
  /\ buffer = None
  /\ ret = None

\* what the caller has once the second call ended with r
ReturnedAgain(r) ==
  /\ fs' = r.fs
  /\ results' = Append(results, r.result)
  /\ effects' = effects \o r.effects
  /\ buffer' = r.buffer

\* the same append, applied to the file the first call left
CallAppendAgain ==
  /\ pc = "returned"
  /\ idx = 1
  /\ batch[1].op = "append"
  /\ idx' = 2
  /\ ReturnedAgain(apply_operation(fs, batch[1], dry_run, "absent"))
  /\ UNCHANGED <<fs0, schema, batch, dry_run, pc, ret>>

NextAdd == CallApplyOperation \/ CallAppendAgain

SpecAdd == InitAdd /\ [][NextAdd]_vars

\* ------------------------------------------------------ main, --apply mode
\* The command line run that applies a batch document: load_patch_batch,
\* apply_batch, then the exit.  pc = "exit0" and "exit1" are the process
\* gone with that code.  Whether the document loads is the environment's
\* (a missing file, JSON that does not parse, a patch with an unknown field);
\* batch is what it holds when it does.

\* an exit that looks at exceptions only
exit_code_ignoring_failures(raised, result) == IF raised THEN 1 ELSE 0

\* lines 701-713: the exit code of main once apply_batch ended
exit_code(raised, result) ==
  IF raised THEN 1
  ELSE IF ~Val(result).success THEN 1
  ELSE 0

InitMain ==
  /\ fs = Tree(TextA)
  /\ fs0 = fs
  /\ schema \in Schemas
  /\ batch \in Batches
  /\ dry_run \in BOOLEAN
  /\ pc = "main"
  /\ idx = 0
  /\ results = <<>>
  /\ effects = <<>>
  /\ buffer = None
  /\ ret = None

\* line 702: load_patch_batch; its exception is caught at line 711
LoadBatch ==
  /\ pc = "main"
  /\ \E loads \in BOOLEAN : pc' = IF loads THEN "start" ELSE "exit1"
  /\ UNCHANGED <<fs, fs0, schema, batch, dry_run, idx, results, effects, buffer, ret>>

\* lines 705-713: the result is printed and the process ends
ExitMain ==
  /\ pc \in {"done", "raised"}
  /\ pc' = IF exit_code(pc = "raised", ret) = 0 THEN "exit0" ELSE "exit1"
  /\ UNCHANGED <<fs, fs0, schema, batch, dry_run, idx, results, effects, buffer, ret>>

NextMain == LoadBatch \/ Validate \/ ApplyNext \/ Return \/ ExitMain

SpecMain == InitMain /\ [][NextMain]_vars

\* ================================================================== claims
\* what the claims speak of, in a state of apply_batch
NumOps == Len(batch)
TargetExists(k) == exists(fs0, batch[k].file)
ContentResolves(k) == ~get_content(fs0, batch[k]).raised
Aborted(k) == pc = "raised" /\ idx = k
Applied(k) == Len(results) >= k
LineCount(file) == Len(readlines(content_of(fs0, file)))

\* C1: an operation whose target file does not exist is confined to that
\* operation: apply_batch does not end by an exception there, the operation
\* gets a failed result with an error detail, and the BatchResult returned
\* has success = FALSE.
C1_MissingTargetConfined ==
  \A k \in 1..NumOps :
    ~TargetExists(k) =>
      /\ ~Aborted(k)
      /\ Applied(k) => (~results[k].success /\ results[k].error # None)
      /\ pc = "done" => ~Val(ret).success

\* C2: an operation whose content cannot be resolved (no block and no
\* blockFile, or a block file that is missing) is confined to that operation:
\* apply_batch does not end by an exception there, the operation gets a failed
\* result, and its target file is unchanged by it.
C2_UnresolvedContentConfined ==
  \A k \in 1..NumOps :
    (TargetExists(k) /\ ~ContentResolves(k)) =>
      /\ ~Aborted(k)
      /\ Applied(k) => ~results[k].success

\* the line numbers an operation names that are no line of its target file
\* (for an insertion: no insertion point of it)
UsesOutOfRangeLine(k) ==
  LET o == batch[k]
      n == LineCount(o.file)
  IN CASE o.op = "replace-block" ->
            /\ o.start # None /\ o.end # None
            /\ (Val(o.start) \notin 1..n \/ Val(o.end) \notin 1..n)
       [] o.op = "insert-before" -> o.line # None /\ Val(o.line) \notin 1..(n + 1)
       [] o.op = "insert-after" -> o.line # None /\ Val(o.line) \notin 0..n
       [] OTHER -> FALSE

\* an operation that is well formed for the tree the batch starts on
ValidOperation(k) ==
  LET o == batch[k]
      n == LineCount(o.file)
  IN CASE o.op = "replace-block" ->
            /\ o.start # None /\ o.end # None
            /\ 1 <= Val(o.start) /\ Val(o.start) <= Val(o.end) /\ Val(o.end) <= n
       [] o.op = "insert-before" -> o.line # None /\ Val(o.line) \in 1..(n + 1)
       [] o.op = "insert-after" -> o.line # None /\ Val(o.line) \in 0..n
       [] o.op \in {"append", "prepend"} -> TRUE
       [] OTHER -> FALSE

\* the content of the target of operation k once k alone is applied to tree
EditedAlone(tree, k) ==
  writelines(dispatch(content_of(tree, batch[k].file), batch[k],
                      get_content(tree, batch[k]).content).modified_lines)

\* the batches C3 is about
PartialBatch ==
  /\ ~dry_run
  /\ NumOps = 2
  /\ batch[1].file # batch[2].file
  /\ TargetExists(1) /\ TargetExists(2)
  /\ ContentResolves(1) /\ ContentResolves(2)
  /\ UsesOutOfRangeLine(1)
  /\ ValidOperation(2)

\* C3: a non-dry-run batch of two operations on two different existing files,
\* the first with an out-of-range line number and the second valid, returns
\* success = FALSE, succeeded = 1, failed = 1, leaves the first file
\* unchanged and the second file with its edit.
C3_PartialApplication ==
  (pc = "done" /\ PartialBatch) =>
    /\ ~Val(ret).success
    /\ Val(ret).succeeded = 1
    /\ Val(ret).failed = 1
    /\ fs[batch[1].file] = fs0[batch[1].file]
    /\ fs[batch[2].file] = Some(EditedAlone(fs0, 2))

\* C4: schema validation runs over the whole batch before any operation is
\* applied: when some operation of the batch, at any position, violates the
\* allow-list of the schema, no file is modified, nothing is written or
\* notified and no operation is applied.
ViolatesAllowList(k) ==
  schema.exists /\ schema.parses /\ operation_rejected(schema.tasks, batch[k])

C4_ValidationBeforeMutation ==
  (\E k \in 1..NumOps : ViolatesAllowList(k)) =>
    /\ fs = fs0
    /\ effects = <<>>
    /\ results = <<>>
    /\ pc \in {"start", "raised"}

\* the batch was refused although its first operation is allowed and could
\* have been applied: the violation is in the second one
C4_Witness ==
  /\ pc = "raised" /\ idx = 0
  /\ NumOps = 2
  /\ ~ViolatesAllowList(1) /\ ViolatesAllowList(2)
  /\ TargetExists(1) /\ ContentResolves(1) /\ ValidOperation(1)

\* the tree after the successful ones of the first k operations, each
\* applied to the tree the ones before it left
RECURSIVE Composed(_)
ComposeStep(prev, k) ==
  IF results[k].success
  THEN [prev EXCEPT ![batch[k].file] = Some(EditedAlone(prev, k))]
  ELSE prev
Composed(k) == IF k = 0 THEN fs0 ELSE ComposeStep(Composed(k - 1), k)

\* C5: in a non-dry-run batch the operations are applied in list order, each
\* on the files as the earlier ones left them: the tree is at every moment
\* the sequential composition, in list order, of the successful operations
\* applied so far.
C5_SequentialComposition ==
  ~dry_run => fs = Composed(Len(results))

\* two successful edits of one file, the second of which met the output of
\* the first: the file is neither edit applied alone to the original
C5_Witness ==
  /\ pc = "done" /\ ~dry_run
  /\ NumOps = 2
  /\ batch[1].file = batch[2].file
  /\ results[1].success /\ results[2].success
  /\ fs[batch[1].file] # Some(EditedAlone(fs0, 1))
  /\ fs[batch[1].file] # Some(EditedAlone(fs0, 2))
  /\ LineCount(batch[1].file) # Len(readlines(EditedAlone(fs0, 1)))

\* ---------------------------------------------------- claims on one edit
\* what the claims speak of, in a state of SpecEdit
EStart == Val(batch[1].start)
EEnd == Val(batch[1].end)
EContent == get_content(fs0, batch[1]).content
EPreserve == ~batch[1].openSpace
ELines == readlines(content_of(fs0, "a.py"))
ECount == Len(ELines)
EInRange == 1 <= EStart /\ EStart <= EEnd /\ EEnd <= ECount
EReturned == pc = "returned"
EBuffer == Val(buffer)

\* C6: replace-block succeeds only when 1 <= start <= end <= lineCount; for
\* every other start and end it fails with an error and leaves the file as
\* it was.
C6_ReplaceRangeChecked ==
  EReturned =>
    /\ results[1].success => EInRange
    /\ ~EInRange => (~results[1].success /\ results[1].error # None /\ fs = fs0)

\* the number of lines of a text, a last line without newline counting too
LinesOf(text) == Len(readlines(text))

\* C7: replace-block(start, end, content) with 1 <= start <= end <= N and a
\* content of at least one character makes a buffer of exactly
\* N - (end - start + 1) + lines(content) lines.
C7_ReplaceLineCount ==
  (EReturned /\ EInRange /\ EContent # <<>>) =>
    /\ results[1].success
    /\ Len(EBuffer) = ECount - (EEnd - EStart + 1) + LinesOf(EContent)

\* the lines of the buffer that stand where lines start..end stood
SubstitutedCount == Len(EBuffer) - (ECount - (EEnd - EStart + 1))
Substituted(j) == EBuffer[EStart - 1 + j]

\* C8: every line replace-block substitutes is newline-terminated, but for the
\* last one when the content does not end with a newline.
C8_ReplaceTerminators ==
  (EReturned /\ EInRange) =>
    \A j \in 1..SubstitutedCount :
      (j < SubstitutedCount \/ endswith(EContent, NL)) => endswith(Substituted(j), NL)

\* a line without its terminator, and the whitespace it starts with
Chomp(line) == IF endswith(line, NL) THEN SubSeq(line, 1, Len(line) - 1) ELSE line
LeadingSpace(line) ==
  SubSeq(Chomp(line), 1, Len(Chomp(line)) - Len(lstrip(Chomp(line))))
Blank(line) == \A k \in 1..Len(line) : isspace(line[k])

\* the substituted lines are, terminators aside, the lines of the content
\* with first in place of the first one
SubstitutedAre(first) ==
  /\ SubstitutedCount = Len(split(EContent))
  /\ \A j \in 1..Len(split(EContent)) :
       Chomp(Substituted(j)) = IF j = 1 THEN first ELSE split(EContent)[j]

Reindented == LeadingSpace(ELines[EStart]) \o lstrip(split(EContent)[1])

\* C9 as claimed: with preserve-indent, whatever the original line at start
\* is, the first content line becomes the leading whitespace of that line
\* followed by the first content line without its own, and the later content
\* lines stay as authored.
C9_IndentWhateverTheLine ==
  (EReturned /\ EInRange /\ EPreserve) => SubstitutedAre(Reindented)

\* C9 as amended: with preserve-indent, when the original line at start has a
\* character that is not whitespace, the first content line becomes the
\* leading whitespace of that line followed by the first content line without
\* its own; when the original line is empty or all whitespace, the first
\* content line stays as authored; the later content lines always stay as
\* authored.
C9_IndentUnlessBlank ==
  (EReturned /\ EInRange /\ EPreserve) =>
    SubstitutedAre(IF Blank(ELines[EStart]) THEN split(EContent)[1] ELSE Reindented)

\* an indented line is replaced by two lines of content, the first of which
\* came with whitespace of its own
C9_Witness ==
  /\ EReturned /\ EInRange /\ EPreserve
  /\ ~Blank(ELines[EStart])
  /\ LeadingSpace(ELines[EStart]) # <<>>
  /\ Len(split(EContent)) >= 2
  /\ lstrip(split(EContent)[1]) # split(EContent)[1]
  /\ split(EContent)[2] # <<>>

\* the lines of a diff that start with sign, the two header lines aside
SignedLines(diff, sign) ==
  {j \in 1..Len(split(diff)) :
     /\ Len(split(diff)[j]) >= 1
     /\ split(diff)[j][1] = sign
     /\ ~(Len(split(diff)[j]) >= 3 /\ split(diff)[j][2] = sign /\ split(diff)[j][3] = sign)}

\* one line k is replaced by a block of one newline-terminated line that
\* differs from it and already has the indentation it will be given
OneLineReplaced ==
  /\ EReturned /\ EInRange /\ EStart = EEnd
  /\ LinesOf(EContent) = 1 /\ endswith(EContent, NL)
  /\ EContent # ELines[EStart]
  /\ (EPreserve => preserve_indentation(ELines[EStart], EContent) = EContent)

\* C10: replace-block of one line k by a block of one newline-terminated line
\* leaves every other line unchanged and in place, makes line k the block,
\* and gives a diff with exactly one removed and one added line.
C10_SingleLineReplace ==
  OneLineReplaced =>
    /\ results[1].success
    /\ readlines(content_of(fs, "a.py")) = [ELines EXCEPT ![EStart] = EContent]
    /\ Cardinality(SignedLines(Val(results[1].diff), "-")) = 1
    /\ Cardinality(SignedLines(Val(results[1].diff), "+")) = 1

\* ------------------------------------------- claims on insertion and append
\* what the claims speak of, in a state of SpecAdd
AKind == batch[1].op
ALine == Val(batch[1].line)
Once == pc = "returned" /\ idx = 1
FileLines == readlines(content_of(fs, "a.py"))

\* the lines of a content, each with its terminator
ContentLines(content) ==
  [k \in 1..LinesOf(content) |-> Append(Chomp(readlines(content)[k]), NL)]

\* the same lines, the first one with the indentation of the line target
IndentedLike(target, content) ==
  [k \in 1..LinesOf(content) |->
     IF k = 1 THEN LeadingSpace(target) \o lstrip(Chomp(readlines(content)[1])) \o <<NL>>
     ELSE ContentLines(content)[k]]

\* the file with the lines inserted put between its first above lines and
\* the others
InsertedBelow(above, inserted) ==
  FileLines = SliceTo(ELines, above) \o inserted \o SliceFrom(ELines, above)

\* C11: insert-before(line, content), the content of at least one character,
\* succeeds exactly when
\* 1 <= line <= lineCount + 1 and fails with a range error otherwise; on
\* success the content lines sit immediately above the original line `line`,
\* which is shifted down unchanged with all lines after it, and with
\* preserve-indent and line <= lineCount the first inserted line has the
\* indentation of that original line.
C11_InsertBefore ==
  (Once /\ AKind = "insert-before" /\ EContent # <<>>) =>
    /\ results[1].success <=> (1 <= ALine /\ ALine <= ECount + 1)
    /\ ~results[1].success => results[1].error = Some("ValueError")
    /\ results[1].success =>
         InsertedBelow(ALine - 1,
                       IF EPreserve /\ ALine <= ECount
                       THEN IndentedLike(ELines[ALine], EContent)
                       ELSE ContentLines(EContent))

\* C12: insert-before(file, 1, content) makes the leading lines of the file
\* the lines of content verbatim, interior blank lines included; only the
\* indentation of the first one may differ, and only with preserve-indent.
C12_InsertAtTopVerbatim ==
  (Once /\ AKind = "insert-before" /\ ALine = 1 /\ results[1].success) =>
    /\ Len(FileLines) >= LinesOf(EContent)
    /\ \A k \in 1..LinesOf(EContent) :
         \/ FileLines[k] = ContentLines(EContent)[k]
         \/ /\ k = 1 /\ EPreserve
            /\ endswith(FileLines[1], NL)
            /\ lstrip(Chomp(FileLines[1])) = lstrip(Chomp(ContentLines(EContent)[1]))

\* C13: insert-after(line, content), the content of at least one character,
\* succeeds exactly when
\* 0 <= line <= lineCount and fails with a range error otherwise; on success
\* the content lines sit immediately below the original line `line` (at the
\* top when line = 0), and with preserve-indent and line > 0 the first
\* inserted line has the indentation of the original line `line`.
C13_InsertAfter ==
  (Once /\ AKind = "insert-after" /\ EContent # <<>>) =>
    /\ results[1].success <=> (0 <= ALine /\ ALine <= ECount)
    /\ ~results[1].success => results[1].error = Some("ValueError")
    /\ results[1].success =>
         InsertedBelow(ALine,
                       IF EPreserve /\ ALine > 0
                       THEN IndentedLike(ELines[ALine], EContent)
                       ELSE ContentLines(EContent))

\* a content made to end with exactly one newline
RECURSIVE ChompAll(_)
ChompAll(text) ==
  IF endswith(text, NL) THEN ChompAll(SubSeq(text, 1, Len(text) - 1)) ELSE text
Normalised(content) == ChompAll(content) \o <<NL>>

\* C14: append(content), the content of at least one character, leaves every
\* original line unchanged and adds after the last line exactly the lines of
\* the content normalised to end with exactly one newline: no content line,
\* blank ones included, is lost, and nothing is merged into the original last
\* line.
C14_AppendAddsLines ==
  (Once /\ AKind = "append" /\ EContent # <<>>) =>
    /\ results[1].success
    /\ FileLines = ELines \o readlines(Normalised(EContent))

\* C15: the same append applied twice leaves the original text followed by
\* two copies of the content; the second application is not skipped.
C15_AppendTwice ==
  (pc = "returned" /\ idx = 2 /\ EContent # <<>>) =>
    /\ results[2].success
    /\ content_of(fs, "a.py")
         = content_of(fs0, "a.py") \o Normalised(EContent) \o Normalised(EContent)

\* ------------------------------------- claims on dry-run, type check, schema
\* what a real run of operation k on the tree the batch started from gives
RealRun(k) == apply_operation(fs0, batch[k], FALSE, "absent")

\* C16: in dry-run mode every file has the content it had before apply_batch,
\* and the result of each successful operation still carries the diff
\* between the pre-edit lines and the lines it would have written.
C16_DryRunFrame ==
  dry_run =>
    /\ fs = fs0
    /\ \A k \in 1..Len(results) :
         results[k].success =>
           results[k].diff
             = Some(generate_unified_diff(readlines(content_of(fs0, batch[k].file)),
                                          Val(RealRun(k).buffer)))

\* a dry run of two operations, the second of which would change its file
C16_Witness ==
  /\ dry_run /\ pc = "done" /\ Len(results) = 2
  /\ results[2].success
  /\ Val(results[2].diff) # <<>>
  /\ RealRun(2).fs # fs0

\* C18: a result reports the type check as failed only when the checker ran
\* on the file of a successful operation and exited with errors; with no
\* binary, an unsupported file type, a timeout or an operation that failed
\* before the check, the outcome is not-applicable.
C18_FailOnlyWhenCheckerFailed ==
  \A k \in 1..Len(results) :
    results[k].ts_check_ok = Some(FALSE) =>
      /\ results[k].success
      /\ \E j \in 1..Len(effects) :
           effects[j] = [kind |-> "tsc", file |-> results[k].file, outcome |-> "fail"]

Typed(file) == suffix(file) \in {".ts", ".tsx"}

\* C19: a successful operation on a .ts/.tsx file invokes the type checker
\* exactly once and attaches its outcome to the result; a fail outcome is
\* not fatal: the result stays successful, the edited file stays written and
\* the batch goes on to the next operation.
C19_TypeCheckAttached ==
  [][(/\ pc = "loop"
      /\ Len(results') = Len(results) + 1
      /\ results'[Len(results')].success
      /\ Typed(batch[idx].file))
     => LET r == results'[Len(results')]
            added == SubSeq(effects', Len(effects) + 1, Len(effects'))
            checks == {j \in 1..Len(added) : added[j].kind = "tsc"}
        IN /\ Cardinality(checks) = 1
           /\ \A j \in checks :
                /\ added[j].file = batch[idx].file
                /\ added[j].outcome = "pass" => r.ts_check_ok = Some(TRUE)
                /\ added[j].outcome = "fail" => r.ts_check_ok = Some(FALSE)
           /\ ~dry_run => fs'[r.file] = Some(writelines(Val(buffer')))
           /\ pc' = "loop" /\ idx' = idx + 1]_vars

\* the checker failed on the first operation's file, which stays written,
\* and the second operation was applied
C19_Witness ==
  /\ pc = "done" /\ ~dry_run /\ Len(results) = 2
  /\ results[1].success /\ Typed(results[1].file)
  /\ results[1].ts_check_ok = Some(FALSE)
  /\ \E j \in 1..Len(effects) :
       effects[j] = [kind |-> "tsc", file |-> results[1].file, outcome |-> "fail"]
  /\ results[2].success
  /\ fs[results[1].file] # fs0[results[1].file]

\* C20: with no schema file the validation passes for every batch, whatever
\* files, kinds and task ids its operations have.
C20_NoSchemaNoRejection ==
  ~schema.exists => ~(pc = "raised" /\ idx = 0)

\* a batch that a schema would reject is past validation without one
C20_Witness ==
  /\ ~schema.exists /\ pc = "loop" /\ idx = 1
  /\ \E sch \in Schemas : validate_against_task_schema(sch, batch)

\* ------------------------------------------------- claims on the round trip
\* Applying a unified diff to a sequence of lines (lines are taken without
\* their terminators).  The rows of the diff are its text lines: two header
\* rows, then hunks, each a row "@@ -a,b +c,d @@" followed by b rows that are
\* context or removals and d rows that are context or additions, the first
\* character of a row telling which.  None when the diff is malformed or
\* does not fit the lines.
Chomped(lines) == [k \in 1..Len(lines) |-> Chomp(lines[k])]

DigitValue(c) ==
  CASE c = "0" -> 0 [] c = "1" -> 1 [] c = "2" -> 2 [] c = "3" -> 3 [] c = "4" -> 4
    [] c = "5" -> 5 [] c = "6" -> 6 [] c = "7" -> 7 [] c = "8" -> 8 [] c = "9" -> 9
    [] OTHER -> -1

RECURSIVE ParseNat(_)
\* the number a string of digits writes, -1 when it is not one
ParseNat(digits) ==
  IF digits = <<>> THEN -1
  ELSE IF DigitValue(digits[Len(digits)]) < 0 THEN -1
  ELSE IF Len(digits) = 1 THEN DigitValue(digits[1])
  ELSE LET high == ParseNat(SubSeq(digits, 1, Len(digits) - 1))
       IN IF high < 0 THEN -1 ELSE 10 * high + DigitValue(digits[Len(digits)])

\* where a character first stands in a string, 0 when nowhere
FirstOf(text, c) ==
  IF \E k \in 1..Len(text) : text[k] = c
  THEN CHOOSE k \in 1..Len(text) : text[k] = c /\ \A j \in 1..(k - 1) : text[j] # c
  ELSE 0

\* "a,b" or "a" (then b = 1) after its sign: <<a, b>>, <<-1, -1>> when malformed
ParseRange(text) ==
  IF FirstOf(text, ",") = 0 THEN <<ParseNat(text), 1>>
  ELSE <<ParseNat(SubSeq(text, 1, FirstOf(text, ",") - 1)),
         ParseNat(SubSeq(text, FirstOf(text, ",") + 1, Len(text)))>>

\* the row "@@ -a,b +c,d @@": <<a, b, c, d>>, a negative entry when malformed
ParseHunkHeader(row) ==
  LET Malformed == <<-1, -1, -1, -1>>
  IN IF Len(row) < 11 \/ SubSeq(row, 1, 4) # <<"@", "@", " ", "-">>
          \/ SubSeq(row, Len(row) - 2, Len(row)) # <<" ", "@", "@">>
     THEN Malformed
     ELSE LET ranges == SubSeq(row, 5, Len(row) - 3)
              gap == FirstOf(ranges, " ")
          IN IF gap = 0 \/ gap + 1 > Len(ranges) \/ ranges[gap + 1] # "+" THEN Malformed
             ELSE ParseRange(SubSeq(ranges, 1, gap - 1))
                    \o ParseRange(SubSeq(ranges, gap + 2, Len(ranges)))

RECURSIVE ApplyHunks(_, _, _, _, _), ApplyBody(_, _, _, _, _, _, _)
\* rows from r on are hunks; old lines before pos are dealt with, out is
\* the new file so far
ApplyHunks(old, rows, r, pos, out) ==
  IF r > Len(rows) \/ (r = Len(rows) /\ rows[r] = <<>>)
  THEN Some(out \o SubSeq(old, pos, Len(old)))
  ELSE LET h == ParseHunkHeader(rows[r])
           start == IF h[2] = 0 THEN h[1] + 1 ELSE h[1]
       IN IF h[1] < 0 \/ h[2] < 0 \/ h[3] < 0 \/ h[4] < 0 THEN None
          ELSE IF start < pos \/ start + h[2] - 1 > Len(old) THEN None
          ELSE ApplyBody(old, rows, r + 1, start, h[2], h[4],
                         out \o SubSeq(old, pos, start - 1))

\* the body of a hunk with b old and d new lines still to come
ApplyBody(old, rows, r, pos, b, d, out) ==
  IF b = 0 /\ d = 0 THEN ApplyHunks(old, rows, r, pos, out)
  ELSE IF r > Len(rows) THEN None
  ELSE IF rows[r] = <<>> THEN None
  ELSE LET sign == rows[r][1]
           text == Tail(rows[r])
       IN CASE sign = " " ->
                 IF b > 0 /\ d > 0 /\ old[pos] = text
                 THEN ApplyBody(old, rows, r + 1, pos + 1, b - 1, d - 1, Append(out, text))
                 ELSE None
            [] sign = "-" ->
                 IF b > 0 /\ old[pos] = text
                 THEN ApplyBody(old, rows, r + 1, pos + 1, b - 1, d, out)
                 ELSE None
            [] sign = "+" ->
                 IF d > 0
                 THEN ApplyBody(old, rows, r + 1, pos, b, d - 1, Append(out, text))
                 ELSE None
            [] OTHER -> None

ApplyDiff(old, diff) ==
  IF diff = <<>> THEN Some(old)
  ELSE LET rows == split(diff)
       IN IF Len(rows) < 3 THEN None
          ELSE IF Len(rows[1]) < 4 \/ SubSeq(rows[1], 1, 4) # <<"-", "-", "-", " ">> THEN None
          ELSE IF Len(rows[2]) < 4 \/ SubSeq(rows[2], 1, 4) # <<"+", "+", "+", " ">> THEN None
          ELSE ApplyHunks(old, rows, 3, 1, <<>>)

\* C17: for every successful operation (here a replace-block within the
\* file, its content of at least one character), applying the diff of its
\* result to the pre-edit lines gives exactly the post-edit lines the
\* operation wrote to the file.
C17_RoundTrip ==
  (EReturned /\ EInRange /\ EContent # <<>> /\ results[1].success) =>
    ApplyDiff(Chomped(ELines), Val(results[1].diff)) = Some(Chomped(FileLines))

\* ------------------------------------------------- claims on the allow-list
\* what the claims speak of, in a state of apply_batch
WellFormedSchema == schema.exists /\ schema.parses /\ schema.shaped
ValidationFailed == pc = "raised" /\ idx = 0
CarriesTaskId(k) == batch[k].taskId # None /\ batch[k].taskId # Some("")

\* the places of the schema's task that operation k names: the first task
\* with its task id
TaskOf(k) ==
  {j \in 1..Len(schema.tasks) :
     /\ CarriesTaskId(k)
     /\ schema.tasks[j].id = Val(batch[k].taskId)
     /\ \A i \in 1..(j - 1) : schema.tasks[i].id # Val(batch[k].taskId)}

FileMismatch(k, j) ==
  schema.tasks[j].files # <<>>
    /\ \A i \in 1..Len(schema.tasks[j].files) : schema.tasks[j].files[i] # batch[k].file
KindMismatch(k, j) ==
  schema.tasks[j].allowedOperations # <<>>
    /\ \A i \in 1..Len(schema.tasks[j].allowedOperations) :
         schema.tasks[j].allowedOperations[i] # batch[k].op
Mismatch(k) == \E j \in TaskOf(k) : FileMismatch(k, j) \/ KindMismatch(k, j)

\* C21: with a schema present (a document of the expected shape), validation
\* fails whenever some operation carries a task id found in the schema and
\* its file is not in that task's non-empty allowed files or its kind not in
\* that task's non-empty allowed operations; an empty allowed set constrains
\* nothing.
C21_AllowListEnforced ==
  (WellFormedSchema /\ pc # "start") =>
    /\ (\E k \in 1..NumOps : Mismatch(k)) => ValidationFailed
    /\ (\A k \in 1..NumOps : \A j \in TaskOf(k) :
          /\ schema.tasks[j].files = <<>> \/ ~FileMismatch(k, j)
          /\ schema.tasks[j].allowedOperations = <<>> \/ ~KindMismatch(k, j))
         => ~ValidationFailed

\* the batch was refused for the kind of an operation whose task allows any
\* file
C21_Witness ==
  /\ WellFormedSchema /\ ValidationFailed
  /\ \E k \in 1..NumOps : \E j \in TaskOf(k) :
       schema.tasks[j].files = <<>> /\ KindMismatch(k, j)

Notified == {j \in 1..Len(effects) : effects[j].kind = "notify"}

\* C23: apply_batch sends exactly one notifier event per completed
\* operation, succeeded or failed: the events sent are as many as the
\* operations completed, and as many as the operations of the batch at the
\* end.
C23_OneEventPerOperation ==
  /\ Cardinality(Notified) = Len(results)
  /\ pc = "done" => Cardinality(Notified) = NumOps

\* what the call of operation idx gives, the network left aside
ThisRun == apply_operation(fs, batch[idx], dry_run, "absent")

\* C24: a notification that is not delivered changes no success flag and not
\* the BatchResult, and stops no later operation: the step that sends it
\* records the successful result the operation gave and moves on to the next
\* operation, the loop ends before the last operation only by an exception of
\* an operation, and the BatchResult is made of the results alone.
C24_DeliveryFailureHarmless ==
  [][/\ (/\ Len(effects') > Len(effects)
         /\ effects'[Len(effects')].kind = "notify"
         /\ ~effects'[Len(effects')].returned)
        => /\ results' = Append(results, results'[Len(results')])
           /\ results'[Len(results')].success
           /\ results'[Len(results')].success = ThisRun.result.success
           /\ results'[Len(results')].diff = ThisRun.result.diff
           /\ fs' = ThisRun.fs
           /\ pc' = "loop" /\ idx' = idx + 1
     /\ (pc = "loop" /\ pc' = "raised") => ThisRun.raised
     /\ pc' = "done" =>
          /\ Val(ret').operations = results
          /\ Val(ret').success = \A k \in 1..Len(results) : results[k].success]_vars

\* no notification of a batch of two successful operations was delivered,
\* and the batch succeeded
C24_Witness ==
  /\ pc = "done" /\ NumOps = 2 /\ ~dry_run
  /\ Cardinality(Notified) = 2
  /\ \A j \in Notified : ~effects[j].returned
  /\ Val(ret).success
  /\ Val(ret).succeeded = 2

C27_CheckThenWriteThenNotify ==
  \A j \in 1..Len(effects) :
    /\ effects[j].kind = "write" =>
         /\ j < Len(effects)
         /\ effects[j + 1].kind = "notify"
         /\ effects[j + 1].file = effects[j].file
    /\ effects[j].kind = "tsc" =>
         /\ j < Len(effects)
         /\ effects[j + 1].kind = (IF dry_run THEN "notify" ELSE "write")
         /\ effects[j + 1].file = effects[j].file

\* C28: an operation that returns success = FALSE leaves every file as it
\* was, its own target included, and a successful operation changes no file
\* but its own target.
C28_FrameOfOneOperation ==
  [][Len(results') = Len(results) + 1
     => /\ ~results'[Len(results')].success => fs' = fs
        /\ results'[Len(results')].success =>
             \A f \in Files : f # results'[Len(results')].file => fs'[f] = fs[f]]_vars

\* a failed operation left its file as it was and a successful one changed
\* its own
C28_Witness ==
  /\ pc = "done" /\ ~dry_run /\ NumOps = 2
  /\ batch[1].file # batch[2].file
  /\ ~results[1].success /\ results[1].error # None
  /\ results[2].success
  /\ fs[batch[1].file] = fs0[batch[1].file]
  /\ fs[batch[2].file] # fs0[batch[2].file]

\* the tree a run that writes leaves after the first k operations
RECURSIVE RealTree(_)
RealTree(k) ==
  IF k = 0 THEN fs0
  ELSE apply_operation(RealTree(k - 1), batch[k], FALSE, "absent").fs

\* C29: the success flags and the diffs a dry run returns are those a run
\* that writes returns for the same batch on the same tree, also when
\* several operations have the same target.
C29_DryRunPreviews ==
  dry_run =>
    \A k \in 1..Len(results) :
      /\ results[k].success
           = apply_operation(RealTree(k - 1), batch[k], FALSE, "absent").result.success
      /\ results[k].diff
           = apply_operation(RealTree(k - 1), batch[k], FALSE, "absent").result.diff

\* ------------------------------------------------ claims on the schema gate
\* C30: a schema file that exists cannot be bypassed: a batch with an
\* operation its allow-list forbids is never applied, and when the file
\* cannot be parsed no operation of the batch is applied and nothing is
\* written.
C30_SchemaGateNotBypassed ==
  schema.exists =>
    /\ (\E k \in 1..NumOps : Mismatch(k)) => (results = <<>> /\ fs = fs0)
    /\ ~schema.parses => (results = <<>> /\ fs = fs0 /\ effects = <<>>)

\* ----------------------------------------------------- claims on the exit
Exited == pc \in {"exit0", "exit1"}

\* C26: the run that applies a batch exits with code 0 exactly when every
\* operation of the batch succeeded, and with another code after a failed
\* operation, a validation failure, or an error loading or applying the
\* batch.
C26_ExitCode ==
  Exited =>
    (pc = "exit0" <=>
       /\ ret # None
       /\ Len(results) = NumOps
       /\ \A k \in 1..NumOps : results[k].success)

\* the run applied both operations, one of them failed, and it exited with 1
C26_Witness ==
  /\ pc = "exit1" /\ NumOps = 2
  /\ ret # None
  /\ Len(results) = 2
  /\ results[1].success /\ ~results[2].success

====
